---- MODULE Spec2Model ----
(***************************************************************************)
(* A model of src/components/MacroDashboard.js: the component's state      *)
(* (useState cells), its mount effect, the fetch cycle fetchData with its  *)
(* three joined GET requests, the refresh interval, the effect cleanup,    *)
(* the two parameter inputs and the derived metrics of the render body.    *)
(*                                                                         *)
(* Numbers are fixed point: a percentage p is the integer 1000 * p         *)
(* (thousandths).  A JavaScript number is a record [nan, v]; a string      *)
(* produced by toFixed(2) is a record [nan, neg, cents].  A nullable value *)
(* is a tuple: << >> is null and <<x>> is the value x.                     *)
(*                                                                         *)
(* The state updates a settled fetch cycle makes (setData, setError,       *)
(* setLoading) are one step: they run in one continuation of the promise   *)
(* and are rendered together.  A page reload (the Retry button) ends the   *)
(* program; the next page load is a new behaviour starting in Init.        *)
(***************************************************************************)
EXTENDS Integers, Sequences, FiniteSets, TLC

VARIABLES
  BACKEND_URL,        \* TRUE iff process.env.REACT_APP_BACKEND_URL is truthy
  data,               \* the snapshot: inflation, tbill, longTermRates
  loading,            \* the loading flag
  error,              \* the error flag: null or a message
  estimatedInflation, \* parameter
  estimatedGrowth,    \* parameter
  phase,              \* "constructed", "mounted" (effect ran), "torn" (cleanup ran)
  intervalId,         \* null, or <<delay>> while the refresh interval is set
  started,            \* number of fetchData calls made so far
  req,                \* req[c][e]: the GET of cycle c to endpoint e
  promise,            \* promise[c]: the state of cycle c's Promise.all
  lastSettled,        \* history: null, or the cycle that settled last
  atTeardown          \* history: the cycles in flight when the cleanup ran

vars == <<BACKEND_URL, data, loading, error, estimatedInflation, estimatedGrowth,
          phase, intervalId, started, req, promise, lastSettled, atTeardown>>

(***************************************************************************)
(* Bounds                                                                  *)
(***************************************************************************)
\* The number of fetch cycles a behaviour may start (the initial one and the
\* timer-driven ones).
MaxCycles == 2

Cycles == 1..MaxCycles

(***************************************************************************)
(* Values                                                                  *)
(***************************************************************************)
Null == << >>
Some(x) == <<x>>

Num(n) == [nan |-> FALSE, v |-> n]
NaN == [nan |-> TRUE, v |-> 0]

Abs(n) == IF n < 0 THEN -n ELSE n

\* The binary operators - and + of JavaScript numbers: NaN is absorbing.
Minus(a, b) == IF a.nan \/ b.nan THEN NaN ELSE Num(a.v - b.v)
Plus(a, b) == IF a.nan \/ b.nan THEN NaN ELSE Num(a.v + b.v)

\* A text is a tuple of characters.  parseFloat: skip leading blanks, read an
\* optional sign, digits, and an optional point and digits; what follows the
\* longest such prefix is ignored; NaN when the prefix holds no digit.  Digits
\* after the third decimal place are below the model's resolution and exponents
\* are not read.
DigitChars == <<"0", "1", "2", "3", "4", "5", "6", "7", "8", "9">>
IsDigit(ch) == \E i \in 1..Len(DigitChars) : DigitChars[i] = ch
DigitVal(ch) == (CHOOSE i \in 1..Len(DigitChars) : DigitChars[i] = ch) - 1

RECURSIVE SkipBlanks(_, _)
SkipBlanks(s, i) ==
  IF i <= Len(s) /\ s[i] = " " THEN SkipBlanks(s, i + 1) ELSE i

RECURSIVE DigitRun(_, _)
DigitRun(s, i) ==
  IF i <= Len(s) /\ IsDigit(s[i]) THEN 1 + DigitRun(s, i + 1) ELSE 0

RECURSIVE DigitsValue(_, _, _)
DigitsValue(s, i, n) ==
  IF n = 0 THEN 0 ELSE 10 * DigitsValue(s, i, n - 1) + DigitVal(s[i + n - 1])

Pow10(k) == CASE k = 0 -> 1 [] k = 1 -> 10 [] k = 2 -> 100 [] OTHER -> 1000

ParseFloat(text) ==
  LET b == SkipBlanks(text, 1)
      signed == b <= Len(text) /\ text[b] \in {"-", "+"}
      neg == signed /\ text[b] = "-"
      i == IF signed THEN b + 1 ELSE b
      n == DigitRun(text, i)
      pt == i + n <= Len(text) /\ text[i + n] = "."
      m == IF pt THEN DigitRun(text, i + n + 1) ELSE 0
      k == IF m > 3 THEN 3 ELSE m
      mag == 1000 * DigitsValue(text, i, n)
               + Pow10(3 - k) * DigitsValue(text, i + n + 1, k)
  IN IF n = 0 /\ m = 0 THEN NaN
     ELSE Num(IF neg THEN -mag ELSE mag)

\* Number.prototype.toFixed(2): "NaN" for NaN; otherwise the sign of x and the
\* hundredth nearest to |x|, the larger one of two equally near.
NaNString == [nan |-> TRUE, neg |-> FALSE, cents |-> 0]

ToFixed2Trunc(x) ==
  IF x.nan THEN NaNString
  ELSE [nan |-> FALSE, neg |-> x.v < 0, cents |-> Abs(x.v) \div 10]

ToFixed2(x) ==
  IF x.nan THEN NaNString
  ELSE [nan |-> FALSE, neg |-> x.v < 0, cents |-> (Abs(x.v) + 5) \div 10]

\* The number a toFixed(2) string denotes: what parseFloat gives for it, and
\* what the operator - coerces it to.
StringToNumber(str) ==
  IF str.nan THEN NaN
  ELSE Num((IF str.neg THEN -10 ELSE 10) * str.cents)

Endpoints == {"inflation", "tbill", "longTermRates"}

BackendUrlMissing == "Backend URL not configured"
FetchFailed == "Failed to load market data. Please try again later."

REFRESH_MS == 300000

InitialData == [inflation |-> Null, tbill |-> Null, longTermRates |-> Null]

\* What the backend may answer on each endpoint.
Quotes(e) ==
  CASE e = "inflation" -> {Num(3200)}
    [] e = "tbill" -> {Num(5000), Num(5004)}
    [] e = "longTermRates" ->
         {[bond_yield |-> Num(4500), tips_yield |-> Num(1500)],
          [bond_yield |-> Num(4504), tips_yield |-> Num(1500)]}

IdleReq == [st |-> "idle", val |-> Null]
PendingReq == [st |-> "pending", val |-> Null]
DroppedReq == [st |-> "dropped", val |-> Null]

(***************************************************************************)
(* The component                                                           *)
(***************************************************************************)
Init ==
  /\ BACKEND_URL \in BOOLEAN
  /\ data = InitialData
  /\ loading = TRUE
  /\ error = Null
  /\ estimatedInflation = Num(2500)
  /\ estimatedGrowth = Num(1500)
  /\ phase = "constructed"
  /\ intervalId = Null
  /\ started = 0
  /\ req = [c \in Cycles |-> [e \in Endpoints |-> IdleReq]]
  /\ promise = [c \in Cycles |-> "none"]
  /\ lastSettled = Null
  /\ atTeardown = {}

InFlight == {c \in Cycles : promise[c] = "pending"}

\* The synchronous part of fetchData: setLoading(true) and the three GETs.
StartFetch ==
  /\ started' = started + 1
  /\ loading' = TRUE
  /\ req' = [req EXCEPT ![started + 1] = [e \in Endpoints |-> PendingReq]]
  /\ promise' = [promise EXCEPT ![started + 1] = "pending"]

\* The responses of a cycle, as the array Promise.all resolves to.
Results(r) == [e \in Endpoints |-> r[e].val[1]]

\* The object handed to setData.
Snapshot(results) ==
  [inflation |-> Some(results["inflation"]),
   tbill |-> Some(results["tbill"]),
   longTermRates |-> Some(results["longTermRates"])]

\* Mutant: the snapshot is merged field by field and tbill is forgotten.
OnFulfilledPartial(c, results) ==
  /\ data' = [data EXCEPT !.inflation = Some(results["inflation"]),
                          !.longTermRates = Some(results["longTermRates"])]
  /\ error' = Null
  /\ loading' = FALSE

\* Mutant: a cycle that is not the latest one started is treated as stale.
OnFulfilledLatestOnly(c, results) ==
  /\ IF c = started
       THEN data' = Snapshot(results) /\ error' = Null
       ELSE UNCHANGED <<data, error>>
  /\ loading' = FALSE

\* The continuation after the await: setData, setError(null), then finally.
OnFulfilled(c, results) ==
  /\ data' = Snapshot(results)
  /\ error' = Null
  /\ loading' = FALSE

\* Mutant: a failed cycle clears the snapshot.
OnRejectedClears(c) ==
  /\ error' = Some(FetchFailed)
  /\ loading' = FALSE
  /\ data' = InitialData

\* Mutant: a failed cycle is logged and not flagged.
OnRejectedSilent(c) ==
  /\ loading' = FALSE
  /\ UNCHANGED <<data, error>>

\* The catch block, then finally.
OnRejected(c) ==
  /\ error' = Some(FetchFailed)
  /\ loading' = FALSE
  /\ UNCHANGED data

\* Mutant: the effect without its guard on the base URL.
UseEffectUnguarded ==
  /\ phase = "constructed"
  /\ phase' = "mounted"
  /\ StartFetch
  /\ intervalId' = Some(REFRESH_MS)
  /\ UNCHANGED <<BACKEND_URL, data, error, estimatedInflation, estimatedGrowth,
                 lastSettled, atTeardown>>

\* The mount effect.
UseEffect ==
  /\ phase = "constructed"
  /\ phase' = "mounted"
  /\ IF ~BACKEND_URL
       THEN /\ error' = Some(BackendUrlMissing)
            /\ loading' = FALSE
            /\ UNCHANGED <<intervalId, started, req, promise>>
       ELSE /\ StartFetch
            /\ intervalId' = Some(REFRESH_MS)
            /\ UNCHANGED error
  /\ UNCHANGED <<BACKEND_URL, data, estimatedInflation, estimatedGrowth,
                 lastSettled, atTeardown>>

\* The interval fires and calls fetchData.
Tick ==
  /\ intervalId # Null
  /\ started < MaxCycles
  /\ StartFetch
  /\ UNCHANGED <<BACKEND_URL, data, error, estimatedInflation, estimatedGrowth,
                 phase, intervalId, lastSettled, atTeardown>>

\* Mutant: a cleanup that leaves the interval running.
CleanupKeepsInterval ==
  /\ phase = "mounted"
  /\ phase' = "torn"
  /\ atTeardown' = InFlight
  /\ UNCHANGED <<BACKEND_URL, data, loading, error, estimatedInflation,
                 estimatedGrowth, intervalId, started, req, promise, lastSettled>>

\* The cleanup of the effect; the guard returns no cleanup when the URL is missing.
Cleanup ==
  /\ phase = "mounted"
  /\ phase' = "torn"
  /\ intervalId' = IF BACKEND_URL THEN Null ELSE intervalId
  /\ atTeardown' = InFlight
  /\ UNCHANGED <<BACKEND_URL, data, loading, error, estimatedInflation,
                 estimatedGrowth, started, req, promise, lastSettled>>

\* A GET of cycle c answers with v.  The answer that completes the three
\* fulfils the join.  Once the join has rejected, the requests still
\* outstanding are not cancelled, but their outcome reaches no code of the
\* component: it is no step of the model.
Respond(c, e, v) ==
  /\ promise[c] = "pending"
  /\ req[c][e].st = "pending"
  /\ req' = [req EXCEPT ![c][e] = [st |-> "ok", val |-> Some(v)]]
  /\ IF \A f \in Endpoints : req'[c][f].st = "ok"
       THEN /\ promise' = [promise EXCEPT ![c] = "fulfilled"]
            /\ lastSettled' = Some(c)
            /\ OnFulfilled(c, Results(req'[c]))
       ELSE UNCHANGED <<promise, lastSettled, data, error, loading>>
  /\ UNCHANGED <<BACKEND_URL, estimatedInflation, estimatedGrowth, phase,
                 intervalId, started, atTeardown>>

\* A GET of cycle c fails: the first failure rejects the join, which drops the
\* answers it had collected.
Fail(c, e) ==
  /\ promise[c] = "pending"
  /\ req[c][e].st = "pending"
  /\ req' = [req EXCEPT ![c] = [f \in Endpoints |-> DroppedReq]]
  /\ promise' = [promise EXCEPT ![c] = "rejected"]
  /\ lastSettled' = Some(c)
  /\ OnRejected(c)
  /\ UNCHANGED <<BACKEND_URL, estimatedInflation, estimatedGrowth, phase,
                 intervalId, started, atTeardown>>

\* The three views of the render body.
View ==
  IF loading THEN "Loading"
  ELSE IF error # Null THEN "Error"
  ELSE "Ready"

\* The inputs exist in the Ready view of a mounted component only.
CanEdit == phase = "mounted" /\ View = "Ready"

\* onChange of the Estimated Inflation input.
SetEstimatedInflation(text) ==
  /\ CanEdit
  /\ estimatedInflation' = ParseFloat(text)
  /\ UNCHANGED <<BACKEND_URL, data, loading, error, estimatedGrowth, phase,
                 intervalId, started, req, promise, lastSettled, atTeardown>>

\* Mutant: the growth input wired to both setters.
SetEstimatedGrowthBoth(text) ==
  /\ CanEdit
  /\ estimatedGrowth' = ParseFloat(text)
  /\ estimatedInflation' = ParseFloat(text)
  /\ UNCHANGED <<BACKEND_URL, data, loading, error, phase,
                 intervalId, started, req, promise, lastSettled, atTeardown>>

\* onChange of the 20yr Real GDP Growth Estimate input.
SetEstimatedGrowth(text) ==
  /\ CanEdit
  /\ estimatedGrowth' = ParseFloat(text)
  /\ UNCHANGED <<BACKEND_URL, data, loading, error, estimatedInflation, phase,
                 intervalId, started, req, promise, lastSettled, atTeardown>>

\* The derived metrics of the render body, as functions of the snapshot and
\* the parameters: null, or the string shown.
\* Mutant: a NaN parameter is shown as N/A.
EffectiveRealYieldGuarded(d, ei) ==
  IF d.tbill # Null /\ ~ei.nan THEN Some(ToFixed2(Minus(d.tbill[1], ei))) ELSE Null

EffectiveRealYieldOf(d, ei) ==
  IF d.tbill # Null THEN Some(ToFixed2(Minus(d.tbill[1], ei))) ELSE Null

MarketInflationOf(d) ==
  IF d.longTermRates # Null
    THEN Some(ToFixed2(Minus(d.longTermRates[1].bond_yield,
                             d.longTermRates[1].tips_yield)))
    ELSE Null

DeltaInflationOf(d, ei) ==
  IF d.longTermRates # Null
    THEN Some(ToFixed2(Minus(StringToNumber(MarketInflationOf(d)[1]), ei)))
    ELSE Null

DeltaGrowthOf(d, eg) ==
  IF d.longTermRates # Null
    THEN Some(ToFixed2(Minus(d.longTermRates[1].tips_yield, eg)))
    ELSE Null

EstimatedReturnsOf(d, ei, eg) ==
  IF d.longTermRates # Null
    THEN Some(ToFixed2(Plus(Plus(d.longTermRates[1].bond_yield,
                                 StringToNumber(DeltaInflationOf(d, ei)[1])),
                            StringToNumber(DeltaGrowthOf(d, eg)[1]))))
    ELSE Null

effectiveRealYield == EffectiveRealYieldOf(data, estimatedInflation)
marketInflation == MarketInflationOf(data)
deltaInflation == DeltaInflationOf(data, estimatedInflation)
deltaGrowth == DeltaGrowthOf(data, estimatedGrowth)
estimatedReturns == EstimatedReturnsOf(data, estimatedInflation, estimatedGrowth)

\* What a user may type into a parameter input.
Typed == {<<"2", ".", "4", "9", "6">>, <<"a", "b", "c">>}

Next ==
  \/ UseEffect
  \/ Tick
  \/ Cleanup
  \/ \E c \in Cycles, e \in Endpoints : \E v \in Quotes(e) : Respond(c, e, v)
  \/ \E c \in Cycles, e \in Endpoints : Fail(c, e)
  \/ \E text \in Typed : SetEstimatedInflation(text)
  \/ \E text \in Typed : SetEstimatedGrowth(text)

Spec == Init /\ [][Next]_vars

(***************************************************************************)
(* The derived metrics on a populated snapshot: the component in its Ready *)
(* view after one successful cycle, and the user editing the parameters.   *)
(* The quotes and the texts are even in their third decimal place, so no   *)
(* value that toFixed(2) rounds lies halfway between two hundredths: on a  *)
(* halfway value the binary representation, which the fixed-point numbers  *)
(* do not carry, decides the direction.                                    *)
(***************************************************************************)
CalcQuotes(e) ==
  CASE e = "inflation" -> {Num(3200)}
    [] e = "tbill" -> {Num(5000), Num(5004), Num(120)}
    [] e = "longTermRates" ->
         {[bond_yield |-> Num(b), tips_yield |-> Num(t)] :
            b \in {4500, 4504, 4496}, t \in {1500, 1504}}

TypedCalc ==
  {<<"2", ".", "5">>, <<"2", ".", "4", "9", "6">>, <<"1", ".", "5">>,
   <<"1", ".", "4", "9", "6">>, <<"5", ".", "5", "0", "4">>,
   <<"a", "b", "c">>, << >>}

InitCalc ==
  /\ BACKEND_URL = TRUE
  /\ \E results \in [Endpoints -> UNION {CalcQuotes(e) : e \in Endpoints}] :
       /\ \A e \in Endpoints : results[e] \in CalcQuotes(e)
       /\ data = Snapshot(results)
       /\ req = [c \in Cycles |->
                   IF c = 1
                     THEN [e \in Endpoints |-> [st |-> "ok", val |-> Some(results[e])]]
                     ELSE [e \in Endpoints |-> IdleReq]]
  /\ loading = FALSE
  /\ error = Null
  /\ estimatedInflation = Num(2500)
  /\ estimatedGrowth = Num(1500)
  /\ phase = "mounted"
  /\ intervalId = Some(REFRESH_MS)
  /\ started = 1
  /\ promise = [c \in Cycles |-> IF c = 1 THEN "fulfilled" ELSE "none"]
  /\ lastSettled = Some(1)
  /\ atTeardown = {}

NextCalc ==
  \/ \E text \in TypedCalc : SetEstimatedInflation(text)
  \/ \E text \in TypedCalc : SetEstimatedGrowth(text)

SpecCalc == InitCalc /\ [][NextCalc]_vars

(***************************************************************************)
(* Properties                                                              *)
(***************************************************************************)
Settles(c) == promise[c] = "pending" /\ promise'[c] # "pending"
Fulfils(c) == promise[c] = "pending" /\ promise'[c] = "fulfilled"
Rejects(c) == promise[c] = "pending" /\ promise'[c] = "rejected"

Populated == data.tbill # Null /\ data.longTermRates # Null

\* C1: a fetch cycle in which a GET fails settles leaving the snapshot as it
\* was just before and setting the error flag to a message.
C1_FailedCycleKeepsSnapshot ==
  [][\A c \in Cycles : Rejects(c) => (data' = data /\ error' # Null)]_vars

\* A later cycle has failed and the snapshot of an earlier one is still there.
C1_Witness ==
  \E c \in Cycles :
    /\ promise[c] = "rejected"
    /\ lastSettled = Some(c)
    /\ data # InitialData
    /\ error = Some(FetchFailed)

C2_OneCycle ==
  \/ data = InitialData
  \/ \E c \in Cycles : promise[c] = "fulfilled" /\ data = Snapshot(Results(req[c]))

C2_Success ==
  \A c \in Cycles :
    Fulfils(c) => (data' = Snapshot(Results(req'[c])) /\ error' = Null)

\* C2: the snapshot is always the initial all-null value or the three responses
\* of one successful cycle, and a cycle that succeeds makes the snapshot its
\* three responses and clears the error flag.
C2_SnapshotAtomic == []C2_OneCycle /\ [][C2_Success]_vars

\* Two cycles succeeded with different responses; the snapshot is one of them.
C2_Witness ==
  \E c, d \in Cycles :
    /\ promise[c] = "fulfilled" /\ promise[d] = "fulfilled"
    /\ Results(req[c]).tbill # Results(req[d]).tbill
    /\ Results(req[c]).longTermRates # Results(req[d]).longTermRates
    /\ data = Snapshot(Results(req[c]))
    /\ error = Null

\* C3: with the base URL unset, once the effect has run no GET has been issued,
\* no interval exists, the error flag is set, loading is false and the view is
\* the Error view.
C3_NoUrlNoFetch ==
  (~BACKEND_URL /\ phase # "constructed") =>
    /\ started = 0
    /\ \A c \in Cycles, e \in Endpoints : req[c][e] = IdleReq
    /\ intervalId = Null
    /\ error # Null
    /\ loading = FALSE
    /\ View = "Error"

C3_Witness == ~BACKEND_URL /\ phase = "torn" /\ error = Some(BackendUrlMissing)

\* C4: the view is one of Loading, Error, Ready, and it is Loading whenever a
\* fetch cycle of the mounted component is in flight.
C4_LoadingWhileInFlight ==
  /\ View \in {"Loading", "Error", "Ready"}
  /\ (phase = "mounted" /\ InFlight # {}) => View = "Loading"

C5_NoStartAfterTeardown == phase = "torn" => started' = started

C5_OnlyInFlightWrite ==
  (phase = "torn" /\ <<data, error, loading>>' # <<data, error, loading>>)
    => \E c \in atTeardown : Settles(c)

\* C5: after the cleanup no fetch cycle is started and no interval is left,
\* and only the cycles in flight at the cleanup still write the snapshot, the
\* error flag or the loading flag.
C5_Teardown ==
  /\ [](phase = "torn" => intervalId = Null)
  /\ [][C5_NoStartAfterTeardown /\ C5_OnlyInFlightWrite]_vars

\* A cycle in flight at the cleanup has settled after it and written its snapshot.
C5_Witness ==
  /\ phase = "torn"
  /\ started < MaxCycles
  /\ \E c \in atTeardown :
       promise[c] = "fulfilled" /\ data = Snapshot(Results(req[c]))

\* str shows a hundredth nearest to the exact value x (in thousandths).
Nearest(str, x) == ~str.nan /\ Abs(StringToNumber(str).v - x) <= 5
Within(str, x, tol) == ~str.nan /\ Abs(StringToNumber(str).v - x) <= tol

NumericParams == ~estimatedInflation.nan /\ ~estimatedGrowth.nan

Tbill == data.tbill[1].v
Bond == data.longTermRates[1].bond_yield.v
Tips == data.longTermRates[1].tips_yield.v

\* C6 as stated: every derived metric shown is its formula on the unrounded
\* snapshot and parameters, rounded to 2 decimals once.
C6_RoundedOnce ==
  (View = "Ready" /\ Populated /\ NumericParams) =>
    /\ Nearest(effectiveRealYield[1], Tbill - estimatedInflation.v)
    /\ Nearest(marketInflation[1], Bond - Tips)
    /\ Nearest(deltaInflation[1], (Bond - Tips) - estimatedInflation.v)
    /\ Nearest(deltaGrowth[1], Tips - estimatedGrowth.v)
    /\ Nearest(estimatedReturns[1],
               Bond + ((Bond - Tips) - estimatedInflation.v)
                    + (Tips - estimatedGrowth.v))

Shown(cents) == Some([nan |-> FALSE, neg |-> FALSE, cents |-> cents])

\* 5.0, 4.5, 1.5 with 2.5 and 1.5 show 2.50, 3.00, 0.50, 0.00, 5.00.
C6_Example ==
  (/\ Tbill = 5000 /\ Bond = 4500 /\ Tips = 1500
   /\ estimatedInflation = Num(2500) /\ estimatedGrowth = Num(1500)) =>
    /\ effectiveRealYield = Shown(250)
    /\ marketInflation = Shown(300)
    /\ deltaInflation = Shown(50)
    /\ deltaGrowth = Shown(0)
    /\ estimatedReturns = Shown(500)

\* C6, amended: effectiveRealYield, marketImpliedInflation and deltaGrowth are
\* their formulas rounded once; deltaInflation is the shown
\* marketImpliedInflation minus estimatedInflation, rounded, and
\* estimatedReturns is bond_yield plus the shown deltaInflation plus the shown
\* deltaGrowth, rounded; they are within 0.01 and 0.02 of their formulas.
C6_RoundedInputsReused ==
  (View = "Ready" /\ Populated /\ NumericParams) =>
    /\ Nearest(effectiveRealYield[1], Tbill - estimatedInflation.v)
    /\ Nearest(marketInflation[1], Bond - Tips)
    /\ Nearest(deltaGrowth[1], Tips - estimatedGrowth.v)
    /\ Nearest(deltaInflation[1],
               StringToNumber(marketInflation[1]).v - estimatedInflation.v)
    /\ Nearest(estimatedReturns[1],
               Bond + StringToNumber(deltaInflation[1]).v
                    + StringToNumber(deltaGrowth[1]).v)
    /\ Within(deltaInflation[1], (Bond - Tips) - estimatedInflation.v, 10)
    /\ Within(estimatedReturns[1],
              Bond + ((Bond - Tips) - estimatedInflation.v)
                   + (Tips - estimatedGrowth.v), 20)
    /\ C6_Example

\* A snapshot and parameters on which the shown estimatedReturns, 5.00, is not
\* its formula rounded once, 5.01.
C6_Witness ==
  /\ View = "Ready" /\ Populated /\ NumericParams
  /\ Tbill = 5000 /\ Bond = 4504 /\ Tips = 1500
  /\ estimatedInflation = Num(2500) /\ estimatedGrowth = Num(1496)
  /\ effectiveRealYield = Shown(250)
  /\ deltaInflation = Shown(50)
  /\ deltaGrowth = Shown(0)
  /\ estimatedReturns = Shown(500)

\* Whether parseFloat finds a number at the start of the text.
RECURSIVE FirstNonBlank(_, _)
FirstNonBlank(s, i) ==
  IF i <= Len(s) /\ s[i] = " " THEN FirstNonBlank(s, i + 1) ELSE i

Numeric(text) ==
  LET b == FirstNonBlank(text, 1)
      i == IF b <= Len(text) /\ text[b] \in {"-", "+"} THEN b + 1 ELSE b
  IN /\ i <= Len(text)
     /\ \/ IsDigit(text[i])
        \/ text[i] = "." /\ i + 1 <= Len(text) /\ IsDigit(text[i + 1])

C7_Inflation ==
  \A text \in TypedCalc :
    (~Numeric(text) /\ View = "Ready" /\ Populated /\ phase = "mounted") =>
      /\ ENABLED SetEstimatedInflation(text)
      /\ SetEstimatedInflation(text) =>
           /\ estimatedInflation' = NaN
           /\ effectiveRealYield' = Some(NaNString)
           /\ deltaInflation' = Some(NaNString)
           /\ estimatedReturns' = Some(NaNString)
           /\ UNCHANGED <<marketInflation, deltaGrowth, estimatedGrowth, data, error>>

C7_Growth ==
  \A text \in TypedCalc :
    (~Numeric(text) /\ View = "Ready" /\ Populated /\ phase = "mounted") =>
      /\ ENABLED SetEstimatedGrowth(text)
      /\ SetEstimatedGrowth(text) =>
           /\ estimatedGrowth' = NaN
           /\ deltaGrowth' = Some(NaNString)
           /\ estimatedReturns' = Some(NaNString)
           /\ UNCHANGED <<effectiveRealYield, marketInflation, deltaInflation,
                          estimatedInflation, data, error>>

\* C7: in the Ready view with a populated snapshot a non-numeric text is
\* accepted, stores NaN in its parameter and makes the metrics that depend on
\* the parameter show NaN; the other metrics, the other parameter, the snapshot
\* and the error flag stay as they were.
C7_NaNPropagates == [][C7_Inflation /\ C7_Growth]_vars

\* Both parameters have been set to NaN while their metrics showed numbers.
C7_Witness ==
  /\ View = "Ready" /\ Populated
  /\ estimatedInflation = NaN
  /\ ~estimatedGrowth.nan
  /\ effectiveRealYield = Some(NaNString)
  /\ ~marketInflation[1].nan
  /\ ~deltaGrowth[1].nan

C8_CyclesLeaveParameters ==
  (started' # started \/ promise' # promise \/ req' # req \/ phase' # phase
     \/ intervalId' # intervalId \/ data' # data \/ loading' # loading
     \/ error' # error)
    => UNCHANGED <<estimatedInflation, estimatedGrowth>>

C8_EditFrame ==
  /\ estimatedInflation' # estimatedInflation =>
       (CanEdit /\ UNCHANGED <<estimatedGrowth, data, loading, error>>)
  /\ estimatedGrowth' # estimatedGrowth =>
       (CanEdit /\ UNCHANGED <<estimatedInflation, data, loading, error>>)

\* C8: the parameters start at 2.5 and 1.5; a step that starts or settles a
\* cycle, ticks or tears down leaves both unchanged, and a step that changes
\* one of them is an edit in the Ready view that leaves the other parameter,
\* the snapshot, the loading flag and the error flag unchanged.
C8_ParametersFrame ==
  /\ (estimatedInflation = Num(2500) /\ estimatedGrowth = Num(1500))
  /\ [][C8_CyclesLeaveParameters /\ C8_EditFrame]_vars

\* An edited parameter has lived through a later cycle and the teardown.
C8_Witness ==
  /\ estimatedGrowth = Num(2496)
  /\ estimatedInflation = Num(2500)
  /\ started = MaxCycles
  /\ InFlight = {}
  /\ phase = "torn"

\* C9: the cycle that settled last decides: the error flag is null iff it
\* succeeded, and if it succeeded the snapshot holds its three responses,
\* whether or not it started first.
C9_LastSettledWins ==
  \A c \in Cycles :
    lastSettled = Some(c) =>
      /\ error = Null <=> promise[c] = "fulfilled"
      /\ promise[c] = "fulfilled" => data = Snapshot(Results(req[c]))

\* Two overlapping cycles have both succeeded, the earlier one last, with
\* different responses.
C9_Witness ==
  \E c, d \in Cycles :
    /\ c < d
    /\ promise[c] = "fulfilled" /\ promise[d] = "fulfilled"
    /\ lastSettled = Some(c)
    /\ Results(req[c]).tbill # Results(req[d]).tbill
    /\ data = Snapshot(Results(req[c]))

\* C10: in the Ready view the snapshot has been written by a successful cycle:
\* it is not the initial value, and tbill and longTermRates are not null.
C10_ReadyHasSnapshot ==
  View = "Ready" =>
    /\ data # InitialData
    /\ Populated
    /\ \E c \in Cycles : promise[c] = "fulfilled"

\* The Ready view after a failed cycle.
C10_Witness ==
  /\ View = "Ready"
  /\ \E c \in Cycles : promise[c] = "rejected"

====
